---- MODULE Spec2Model ----
(***************************************************************************)
(* The four Cognito-fronting Lambda handlers of fiap-tech-challenge-auth   *)
(* (authorize, authenticate, register, confirm) as a state machine.        *)
(*                                                                         *)
(* The model follows the revision of index.ts that defines `respond`       *)
(* (src/unnamed/part_000).  src/src/index.ts holds two earlier revisions   *)
(* of the same file, one after the other.                                  *)
(*                                                                         *)
(* Text is a sequence of atoms (indivisible chunks of characters), so that *)
(* string concatenation is \o and String.prototype.replace is a search for *)
(* a subsequence.  A JavaScript value is a record tagged by `type`.        *)
(***************************************************************************)
EXTENDS Naturals, Sequences, FiniteSets, TLC

VARIABLES
  cognitoClientId,      \* const cognitoClientId, read from the environment
  cognitoClientSecret,  \* const cognitoClientSecret, read from the environment
  inv                   \* the handler invocations in flight, by invocation

vars == <<cognitoClientId, cognitoClientSecret, inv>>

----------------------------------------------------------------------------
(* Bounds of the model *)

\* The Authorization header values tried are the concatenations of at most
\* this many parts drawn from HeaderParts.
MaxHeaderParts == 2

\* Every property below speaks of one invocation or of a pair, and the
\* handlers share nothing but the two configuration values: two invocations
\* in flight show every interleaving a pair can have.
Invocations == {1, 2}

----------------------------------------------------------------------------
(* JavaScript values *)

Undefined == [type |-> "undefined"]
Null == [type |-> "null"]
Str(s) == [type |-> "string", value |-> s]
Obj(f) == [type |-> "object", fields |-> f]

\* Truthy with the presence test written `!== undefined`: the empty string
\* counts as present.
Truthy_NotUndefined(v) == v.type \notin {"undefined", "null"}

\* JavaScript's ToBoolean on the values above: undefined, null and the empty
\* string are falsy, a non-empty string and any object are truthy.
Truthy(v) ==
  CASE v.type = "undefined" -> FALSE
    [] v.type = "null" -> FALSE
    [] v.type = "string" -> v.value # <<>>
    [] OTHER -> TRUE

\* a || b without its fallback, as in `const { message } = error`.
Or_NoFallback(a, b) == a

\* a || b
Or(a, b) == IF Truthy(a) THEN a ELSE b

\* Property access v.k on a value that is not null or undefined.
Get(v, k) ==
  IF v.type = "object" /\ k \in DOMAIN v.fields THEN v.fields[k] ELSE Undefined

\* Optional chaining v?.k
OptGet(v, k) ==
  IF v.type \in {"undefined", "null"} THEN Undefined ELSE Get(v, k)

\* Whether property access (or destructuring) on v throws a TypeError.
ThrowsOnAccess(v) == v.type \in {"undefined", "null"}

----------------------------------------------------------------------------
(* Text *)

\* Whether pattern occurs in text at index i (1-based).
MatchesAt(text, pattern, i) ==
  /\ i + Len(pattern) - 1 <= Len(text)
  /\ \A k \in 1..Len(pattern) : text[i + k - 1] = pattern[k]

\* String.prototype.indexOf, 1-based; 0 when the pattern does not occur.
IndexOf(text, pattern) ==
  LET hits == {i \in 1..(Len(text) + 1) : MatchesAt(text, pattern, i)}
  IN IF hits = {} THEN 0 ELSE CHOOSE i \in hits : \A j \in hits : i <= j

\* String.prototype.replace with a string pattern: the first occurrence only.
replace(text, pattern, replacement) ==
  LET i == IndexOf(text, pattern)
  IN IF i = 0 THEN text
     ELSE SubSeq(text, 1, i - 1) \o replacement
          \o SubSeq(text, i + Len(pattern), Len(text))

\* Whether part occurs somewhere in text (part non-empty).
Contains(text, part) == part # <<>> /\ IndexOf(text, part) # 0

----------------------------------------------------------------------------
(* JSON *)

Quote == "\""

\* The order in which object keys are written.
KeyOrder == <<"email", "username", "password", "code", "message", "accessToken",
              "AuthenticationResult", "AccessToken">>

RECURSIVE JSON_stringify(_)
RECURSIVE StringifyMembers(_, _, _)

\* The members of object fields f for the keys KeyOrder[n..], comma separated;
\* a member whose value is undefined is left out, as JSON.stringify does.
StringifyMembers(f, n, first) ==
  IF n > Len(KeyOrder) THEN <<>>
  ELSE LET k == KeyOrder[n] IN
       IF k \notin DOMAIN f \/ f[k].type = "undefined"
       THEN StringifyMembers(f, n + 1, first)
       ELSE (IF first THEN <<>> ELSE <<",">>)
            \o <<Quote, k, Quote, ":">> \o JSON_stringify(f[k])
            \o StringifyMembers(f, n + 1, FALSE)

JSON_stringify(v) ==
  CASE v.type = "null" -> <<"null">>
    [] v.type = "string" -> <<Quote>> \o v.value \o <<Quote>>
    [] v.type = "object" -> <<"{">> \o StringifyMembers(v.fields, 1, TRUE) \o <<"}">>

\* The result of a parse step: a value and the index after it, or a failure.
ParseOk(v, next) == [ok |-> TRUE, value |-> v, next |-> next]
ParseFail == [ok |-> FALSE, value |-> Undefined, next |-> 0]

\* The index of the first Quote in t at or after i; 0 when there is none.
ClosingQuote(t, i) ==
  LET hits == {j \in i..Len(t) : t[j] = Quote}
  IN IF hits = {} THEN 0 ELSE CHOOSE j \in hits : \A k \in hits : j <= k

\* A string literal starting at t[i].
ParseString(t, i) ==
  IF i > Len(t) \/ t[i] # Quote THEN ParseFail
  ELSE LET j == ClosingQuote(t, i + 1) IN
       IF j = 0 THEN ParseFail ELSE ParseOk(Str(SubSeq(t, i + 1, j - 1)), j + 1)

RECURSIVE ParseValue(_, _)
RECURSIVE ParseMembers(_, _, _)

\* The members of an object from t[i] on, up to and including the closing
\* brace; acc holds the members read so far (a repeated key keeps the last).
\* A key is one atom: the bodies modelled have no other.
ParseMembers(t, i, acc) ==
  LET key == ParseString(t, i) IN
  IF ~key.ok \/ Len(key.value.value) # 1
     \/ key.next > Len(t) \/ t[key.next] # ":" THEN ParseFail
  ELSE LET val == ParseValue(t, key.next + 1) IN
       IF ~val.ok \/ val.next > Len(t) THEN ParseFail
       ELSE LET f == (key.value.value[1] :> val.value) @@ acc IN
            CASE t[val.next] = "}" -> ParseOk(Obj(f), val.next + 1)
              [] t[val.next] = "," -> ParseMembers(t, val.next + 1, f)
              [] OTHER -> ParseFail

ParseValue(t, i) ==
  IF i > Len(t) THEN ParseFail
  ELSE CASE t[i] = "null" -> ParseOk(Null, i + 1)
         [] t[i] = Quote -> ParseString(t, i)
         [] t[i] = "{" ->
              IF i + 1 <= Len(t) /\ t[i + 1] = "}"
              THEN ParseOk(Obj(<<>>), i + 2)
              ELSE ParseMembers(t, i + 1, <<>>)
         [] OTHER -> ParseFail

\* JSON.parse: the value, or ok = FALSE where JSON.parse throws a SyntaxError.
JSON_parse(text) ==
  LET r == ParseValue(text, 1)
  IN IF r.ok /\ r.next = Len(text) + 1 THEN r ELSE ParseFail

----------------------------------------------------------------------------
(* The texts the requests and the provider's answers are made of *)

Bearer == <<"Bearer ">>
T1 == <<"t1">>
U1 == <<"u1">>
U2 == <<"u2">>
P1 == <<"p1">>
P2 == <<"p2">>
E1 == <<"a@b.com">>
Code1 == <<"139694">>
Reason1 == <<"NotAuthorizedException">>

\* The access tokens the identity provider has issued: getUser accepts these
\* and no other.
ValidTokens == {T1}

RECURSIVE Flatten(_)
Flatten(parts) ==
  IF parts = <<>> THEN <<>> ELSE Head(parts) \o Flatten(Tail(parts))

HeaderParts == {Bearer, T1}

\* "", "Bearer ", "t1", "Bearer t1", "t1Bearer ", "Bearer Bearer ", ...
HeaderTexts ==
  UNION {{Flatten(ps) : ps \in [1..n -> HeaderParts]} : n \in 0..MaxHeaderParts}

\* The objects with some of the keys ks, each key's value drawn from vals[k].
Objects(ks, vals) ==
  UNION {{Obj(f) : f \in {g \in [s -> UNION {vals[k] : k \in s}] :
                            \A k \in s : g[k] \in vals[k]}} : s \in SUBSET ks}

FieldValues ==
  [email |-> {Str(<<>>), Str(E1)},
   username |-> {Str(<<>>), Str(U1), Str(U2)},
   password |-> {Str(<<>>), Str(P1), Str(P2)},
   code |-> {Str(<<>>), Str(Code1)}]

\* event.body: absent (null or undefined), the empty text, text that is not
\* JSON, the JSON texts null and "u1", and the JSON text of an object.
Bodies(ks) ==
  {Null, Undefined, Str(<<>>), Str(<<"{">>), Str(<<"null">>),
   Str(JSON_stringify(Str(U1)))}
    \cup {Str(JSON_stringify(o)) : o \in Objects(ks, FieldValues)}

AuthorizeEvents ==
  {[headers |-> h, body |-> Null] :
     h \in {Undefined, Obj(<<>>), Obj("authorization" :> Str(Bearer \o T1))}
             \cup {Obj("Authorization" :> Str(t)) : t \in HeaderTexts}}

\* authenticate, register and confirm never read event.headers.
BodyEvents(ks) == {[headers |-> Obj(<<>>), body |-> b] : b \in Bodies(ks)}

AuthenticateEvents == BodyEvents({"username", "password"})
RegisterEvents == BodyEvents({"email", "username", "password"})
ConfirmEvents == BodyEvents({"username", "code"})

\* What a failed provider call rejects with: an error with a message, with
\* an empty message, or with none.
ProviderErrors ==
  {Obj("message" :> Str(Reason1)), Obj("message" :> Str(<<>>)), Obj(<<>>)}

Fulfilled(data) == [ok |-> TRUE, data |-> data]
Rejected(error) == [ok |-> FALSE, error |-> error]

\* cognito.getUser(params).promise()
GetUserOutcomes(params) ==
  {Rejected(e) : e \in ProviderErrors}
    \cup (IF params.AccessToken.value \in ValidTokens
          THEN {Fulfilled(Obj(<<>>))} ELSE {})

\* cognito.initiateAuth(params).promise(): the success payload may lack
\* AuthenticationResult, or its AccessToken.
InitiateAuthOutcomes ==
  {Rejected(e) : e \in ProviderErrors}
    \cup {Fulfilled(d) :
            d \in {Obj(<<>>),
                   Obj("AuthenticationResult" :> Obj(<<>>)),
                   Obj("AuthenticationResult" :> Obj("AccessToken" :> Str(<<>>))),
                   Obj("AuthenticationResult" :> Obj("AccessToken" :> Str(T1)))}}

\* cognito.signUp(params).promise(), cognito.confirmSignUp(params).promise()
PlainOutcomes ==
  {Rejected(e) : e \in ProviderErrors} \cup {Fulfilled(Obj(<<>>))}

----------------------------------------------------------------------------
(* The program *)

None == [type |-> "none"]

\* An invocation not yet made.
Idle ==
  [pc |-> "idle", handler |-> "none", event |-> None, secretHash |-> None,
   call |-> None, calls |-> 0, outcome |-> None, result |-> None]

\* crypto.createHmac(algorithm, key).update(data).digest(encoding): the
\* digest is kept as the term it is computed from.
createHmac(algorithm, key, data, encoding) ==
  [type |-> "string",
   digest |-> [algorithm |-> algorithm, key |-> key, data |-> data],
   encoding |-> encoding]

\* s + t for a string s
Concat(s, t) == s.value \o t

\* calculateSecretHash with the message written clientId + username.
calculateSecretHash_Swapped(username) ==
  createHmac("sha256", cognitoClientSecret,
             cognitoClientId \o username.value, "base64")

calculateSecretHash(username) ==
  createHmac("sha256", cognitoClientSecret,
             Concat(username, cognitoClientId), "base64")

respond(statusCode, message) ==
  [statusCode |-> statusCode,
   body |-> JSON_stringify(Obj("message" :> message))]

\* The invocation starts: handler and event are recorded.
Started(i, handler, event) ==
  [inv[i] EXCEPT !.handler = handler, !.event = event]

\* return response
Return(rec, response) ==
  [rec EXCEPT !.pc = "returned", !.result = response]

\* An exception leaves the handler: the promise it returned is rejected.
Throw(rec, name) ==
  [rec EXCEPT !.pc = "thrown", !.result = [thrown |-> name]]

\* await cognito.<operation>(params).promise(): the call is sent and the
\* handler is suspended until the call settles.
Await(rec, operation, params) ==
  [rec EXCEPT !.pc = "awaiting",
              !.call = [operation |-> operation, params |-> params],
              !.calls = @ + 1]

Init ==
  /\ cognitoClientId \in {<<>>, <<"clientId">>}
  /\ cognitoClientSecret \in {<<>>, <<"clientSecret">>}
  /\ inv = [i \in Invocations |-> Idle]

\* authorize testing `!event.headers` only: a missing Authorization entry
\* reaches `.replace` (a TypeError), an empty one reaches the provider.
authorize_HeadersOnly(i, event) ==
  /\ inv[i].pc = "idle"
  /\ LET rec == Started(i, "authorize", event)
         authorization == OptGet(event.headers, "Authorization")
     IN inv' = [inv EXCEPT ![i] =
          IF ~Truthy(event.headers)
          THEN Return(rec, respond(401, Str(<<"Missing Authorization header">>)))
          ELSE IF authorization.type # "string" THEN Throw(rec, "TypeError")
          ELSE LET accessToken == Str(replace(authorization.value, Bearer, <<>>))
               IN Await(rec, "getUser", [AccessToken |-> accessToken])]
  /\ UNCHANGED <<cognitoClientId, cognitoClientSecret>>

\* authorize, up to its await
authorize(i, event) ==
  /\ inv[i].pc = "idle"
  /\ LET rec == Started(i, "authorize", event)
         authorization == OptGet(event.headers, "Authorization")
     IN inv' = [inv EXCEPT ![i] =
          IF ~Truthy(authorization)
          THEN Return(rec, respond(401, Str(<<"Missing Authorization header">>)))
          ELSE LET accessToken == Str(replace(authorization.value, Bearer, <<>>))
               IN Await(rec, "getUser", [AccessToken |-> accessToken])]
  /\ UNCHANGED <<cognitoClientId, cognitoClientSecret>>

\* authorize, from the settling of getUser on
authorizeResume(i, outcome) ==
  /\ inv[i].pc = "awaiting"
  /\ inv[i].handler = "authorize"
  /\ outcome \in GetUserOutcomes(inv[i].call.params)
  /\ LET rec == [inv[i] EXCEPT !.outcome = outcome]
     IN inv' = [inv EXCEPT ![i] =
          IF outcome.ok
          THEN Return(rec, respond(200, Str(<<"Authorized">>)))
          ELSE Return(rec, respond(401, Or(Get(outcome.error, "message"),
                                           Str(<<"Unauthorized">>))))]
  /\ UNCHANGED <<cognitoClientId, cognitoClientSecret>>

\* authenticate, up to its await
authenticate(i, event) ==
  /\ inv[i].pc = "idle"
  /\ LET rec == Started(i, "authenticate", event)
     IN inv' = [inv EXCEPT ![i] =
          IF ~Truthy(event.body)
          THEN Return(rec, respond(400, Str(<<"Missing body">>)))
          ELSE LET parsed == JSON_parse(event.body.value) IN
               IF ~parsed.ok THEN Throw(rec, "SyntaxError")
               ELSE IF ThrowsOnAccess(parsed.value) THEN Throw(rec, "TypeError")
               ELSE LET username == Get(parsed.value, "username")
                        password == Get(parsed.value, "password")
                    IN IF ~Truthy(username) \/ ~Truthy(password)
                       THEN Return(rec, respond(400,
                                     Str(<<"Missing username or password">>)))
                       ELSE LET secretHash == calculateSecretHash(username)
                            IN Await([rec EXCEPT !.secretHash = secretHash],
                                     "initiateAuth",
                                     [AuthFlow |-> "USER_PASSWORD_AUTH",
                                      ClientId |-> cognitoClientId,
                                      AuthParameters |->
                                        [USERNAME |-> username,
                                         PASSWORD |-> password,
                                         SECRET_HASH |-> secretHash]])]
  /\ UNCHANGED <<cognitoClientId, cognitoClientSecret>>

\* authenticateResume echoing the credentials it was called with when the
\* call is rejected.
authenticateResume_Echo(i, outcome) ==
  /\ inv[i].pc = "awaiting"
  /\ inv[i].handler = "authenticate"
  /\ outcome \in InitiateAuthOutcomes
  /\ LET rec == [inv[i] EXCEPT !.outcome = outcome]
     IN inv' = [inv EXCEPT ![i] =
          IF outcome.ok
          THEN LET accessToken ==
                     OptGet(Get(outcome.data, "AuthenticationResult"), "AccessToken")
               IN IF ~Truthy(accessToken)
                  THEN Return(rec, respond(400,
                                Str(<<"Invalid username or password">>)))
                  ELSE Return(rec, respond(200, accessToken))
          ELSE Return(rec, respond(400,
                 Str(<<"Authentication failed for ">>
                       \o inv[i].call.params.AuthParameters.USERNAME.value
                       \o <<":">>
                       \o inv[i].call.params.AuthParameters.PASSWORD.value)))]
  /\ UNCHANGED <<cognitoClientId, cognitoClientSecret>>

\* authenticate, from the settling of initiateAuth on
authenticateResume(i, outcome) ==
  /\ inv[i].pc = "awaiting"
  /\ inv[i].handler = "authenticate"
  /\ outcome \in InitiateAuthOutcomes
  /\ LET rec == [inv[i] EXCEPT !.outcome = outcome]
     IN inv' = [inv EXCEPT ![i] =
          IF outcome.ok
          THEN LET accessToken ==
                     OptGet(Get(outcome.data, "AuthenticationResult"), "AccessToken")
               IN IF ~Truthy(accessToken)
                  THEN Return(rec, respond(400,
                                Str(<<"Invalid username or password">>)))
                  ELSE Return(rec, respond(200, accessToken))
          ELSE Return(rec, respond(400, Or(Get(outcome.error, "message"),
                                           Str(<<"Authentication failed">>))))]
  /\ UNCHANGED <<cognitoClientId, cognitoClientSecret>>

\* register, up to its await
register(i, event) ==
  /\ inv[i].pc = "idle"
  /\ LET rec == Started(i, "register", event)
     IN inv' = [inv EXCEPT ![i] =
          IF ~Truthy(event.body)
          THEN Return(rec, respond(400, Str(<<"Missing body">>)))
          ELSE LET parsed == JSON_parse(event.body.value) IN
               IF ~parsed.ok THEN Throw(rec, "SyntaxError")
               ELSE IF ThrowsOnAccess(parsed.value) THEN Throw(rec, "TypeError")
               ELSE LET email == Get(parsed.value, "email")
                        username == Get(parsed.value, "username")
                        password == Get(parsed.value, "password")
                    IN IF ~Truthy(email) \/ ~Truthy(username) \/ ~Truthy(password)
                       THEN Return(rec, respond(400,
                                     Str(<<"Missing email, username, or password">>)))
                       ELSE LET secretHash == calculateSecretHash(username)
                            IN Await([rec EXCEPT !.secretHash = secretHash],
                                     "signUp",
                                     [ClientId |-> cognitoClientId,
                                      Password |-> password,
                                      Username |-> username,
                                      UserAttributes |->
                                        <<[Name |-> "email", Value |-> email]>>,
                                      SecretHash |-> secretHash])]
  /\ UNCHANGED <<cognitoClientId, cognitoClientSecret>>

\* registerResume sending signUp once more after a rejection.
registerResume_Retry(i, outcome) ==
  /\ inv[i].pc = "awaiting"
  /\ inv[i].handler = "register"
  /\ outcome \in PlainOutcomes
  /\ LET rec == [inv[i] EXCEPT !.outcome = outcome]
     IN inv' = [inv EXCEPT ![i] =
          IF outcome.ok
          THEN Return(rec, respond(200, Str(<<"User created">>)))
          ELSE IF inv[i].calls < 2
          THEN Await(inv[i], "signUp", inv[i].call.params)
          ELSE Return(rec, respond(400, Or(Get(outcome.error, "message"),
                                           Str(<<"User registration failed">>))))]
  /\ UNCHANGED <<cognitoClientId, cognitoClientSecret>>

\* register, from the settling of signUp on
registerResume(i, outcome) ==
  /\ inv[i].pc = "awaiting"
  /\ inv[i].handler = "register"
  /\ outcome \in PlainOutcomes
  /\ LET rec == [inv[i] EXCEPT !.outcome = outcome]
     IN inv' = [inv EXCEPT ![i] =
          IF outcome.ok
          THEN Return(rec, respond(200, Str(<<"User created">>)))
          ELSE Return(rec, respond(400, Or(Get(outcome.error, "message"),
                                           Str(<<"User registration failed">>))))]
  /\ UNCHANGED <<cognitoClientId, cognitoClientSecret>>

\* confirm with the client identifier kept in a reassigned module variable:
\* `cognitoClientId = username + cognitoClientId` in place of the local sum.
confirm_SharedClientId(i, event) ==
  /\ inv[i].pc = "idle"
  /\ LET rec == Started(i, "confirm", event)
         parsed == JSON_parse(event.body.value)
         username == Get(parsed.value, "username")
         code == Get(parsed.value, "code")
         secretHash == createHmac("sha256", cognitoClientSecret,
                                  Concat(username, cognitoClientId), "base64")
     IN IF ~Truthy(event.body)
        THEN /\ inv' = [inv EXCEPT ![i] =
                         Return(rec, respond(400, Str(<<"Missing body">>)))]
             /\ UNCHANGED cognitoClientId
        ELSE IF ~parsed.ok
        THEN /\ inv' = [inv EXCEPT ![i] = Throw(rec, "SyntaxError")]
             /\ UNCHANGED cognitoClientId
        ELSE IF ThrowsOnAccess(parsed.value)
        THEN /\ inv' = [inv EXCEPT ![i] = Throw(rec, "TypeError")]
             /\ UNCHANGED cognitoClientId
        ELSE IF ~Truthy(username) \/ ~Truthy(code)
        THEN /\ inv' = [inv EXCEPT ![i] =
                         Return(rec, respond(400,
                                  Str(<<"Missing username or code">>)))]
             /\ UNCHANGED cognitoClientId
        ELSE /\ cognitoClientId' = Concat(username, cognitoClientId)
             /\ inv' = [inv EXCEPT ![i] =
                         Await([rec EXCEPT !.secretHash = secretHash],
                               "confirmSignUp",
                               [ClientId |-> Concat(username, cognitoClientId),
                                ConfirmationCode |-> code,
                                Username |-> username,
                                SecretHash |-> secretHash])]
  /\ UNCHANGED cognitoClientSecret

\* confirm, up to its await
confirm(i, event) ==
  /\ inv[i].pc = "idle"
  /\ LET rec == Started(i, "confirm", event)
     IN inv' = [inv EXCEPT ![i] =
          IF ~Truthy(event.body)
          THEN Return(rec, respond(400, Str(<<"Missing body">>)))
          ELSE LET parsed == JSON_parse(event.body.value) IN
               IF ~parsed.ok THEN Throw(rec, "SyntaxError")
               ELSE IF ThrowsOnAccess(parsed.value) THEN Throw(rec, "TypeError")
               ELSE LET username == Get(parsed.value, "username")
                        code == Get(parsed.value, "code")
                    IN IF ~Truthy(username) \/ ~Truthy(code)
                       THEN Return(rec, respond(400,
                                     Str(<<"Missing username or code">>)))
                       ELSE LET secretHash == calculateSecretHash(username)
                            IN Await([rec EXCEPT !.secretHash = secretHash],
                                     "confirmSignUp",
                                     [ClientId |-> cognitoClientId,
                                      ConfirmationCode |-> code,
                                      Username |-> username,
                                      SecretHash |-> secretHash])]
  /\ UNCHANGED <<cognitoClientId, cognitoClientSecret>>

\* confirm, from the settling of confirmSignUp on
confirmResume(i, outcome) ==
  /\ inv[i].pc = "awaiting"
  /\ inv[i].handler = "confirm"
  /\ outcome \in PlainOutcomes
  /\ LET rec == [inv[i] EXCEPT !.outcome = outcome]
     IN inv' = [inv EXCEPT ![i] =
          IF outcome.ok
          THEN Return(rec, respond(200, Str(<<"User confirmed">>)))
          ELSE Return(rec, respond(400, Or(Get(outcome.error, "message"),
                                           Str(<<"Confirmation failed">>))))]
  /\ UNCHANGED <<cognitoClientId, cognitoClientSecret>>

Next ==
  \E i \in Invocations :
    \/ \E event \in AuthorizeEvents : authorize(i, event)
    \/ \E event \in AuthenticateEvents : authenticate(i, event)
    \/ \E event \in RegisterEvents : register(i, event)
    \/ \E event \in ConfirmEvents : confirm(i, event)
    \/ \E outcome \in PlainOutcomes : authorizeResume(i, outcome)
    \/ \E outcome \in InitiateAuthOutcomes : authenticateResume(i, outcome)
    \/ \E outcome \in PlainOutcomes : registerResume(i, outcome)
    \/ \E outcome \in PlainOutcomes : confirmResume(i, outcome)

Spec == Init /\ [][Next]_vars

----------------------------------------------------------------------------
(* What the properties below are stated with *)

BodyHandlers == {"authenticate", "register", "confirm"}

RequiredFields(handler) ==
  CASE handler = "authenticate" -> {"username", "password"}
    [] handler = "register" -> {"email", "username", "password"}
    [] handler = "confirm" -> {"username", "code"}

MissingFieldsMessage(handler) ==
  CASE handler = "authenticate" -> <<"Missing username or password">>
    [] handler = "register" -> <<"Missing email, username, or password">>
    [] handler = "confirm" -> <<"Missing username or code">>

FallbackMessage(handler) ==
  CASE handler = "authorize" -> <<"Unauthorized">>
    [] handler = "authenticate" -> <<"Authentication failed">>
    [] handler = "register" -> <<"User registration failed">>
    [] handler = "confirm" -> <<"Confirmation failed">>

SuccessMessage(handler) ==
  CASE handler = "authorize" -> <<"Authorized">>
    [] handler = "register" -> <<"User created">>
    [] handler = "confirm" -> <<"User confirmed">>
    [] OTHER -> <<>>

\* The fixed texts a handler answers with.
FixedMessages(handler) ==
  {FallbackMessage(handler), <<"Missing body">>,
   <<"Missing Authorization header">>, <<"Invalid username or password">>}
    \cup (IF handler \in BodyHandlers THEN {MissingFieldsMessage(handler)} ELSE {})
    \cup (IF handler = "authenticate" THEN {} ELSE {SuccessMessage(handler)})

FailureStatus(handler) == IF handler = "authorize" THEN 401 ELSE 400

\* The text {"<key>":"<text>"}, written out.
KeyedBody(key, text) ==
  <<"{", Quote, key, Quote, ":", Quote>> \o text \o <<Quote, "}">>

MessageBody(text) == KeyedBody("message", text)

Response(statusCode, text) == [statusCode |-> statusCode, body |-> MessageBody(text)]

Invoked(i) == inv[i].pc # "idle"
Returned(i) == inv[i].pc = "returned"
Settled(i) == inv[i].outcome # None
Succeeded(i) == Settled(i) /\ inv[i].outcome.ok
Failed(i) == Settled(i) /\ ~inv[i].outcome.ok

\* The event has a body that is not empty.
HasBody(e) == e.body.type = "string" /\ e.body.value # <<>>

\* The event's body is the JSON text of an object.
HasObjectBody(e) ==
  /\ HasBody(e)
  /\ JSON_parse(e.body.value).ok
  /\ JSON_parse(e.body.value).value.type = "object"

\* The text of field k of the event's object body; empty when it is absent.
Field(e, k) ==
  LET f == JSON_parse(e.body.value).value.fields
  IN IF k \in DOMAIN f /\ f[k].type = "string" THEN f[k].value ELSE <<>>

\* The Authorization header's text; empty when there is none.
AuthorizationHeader(e) ==
  IF e.headers.type = "object" /\ "Authorization" \in DOMAIN e.headers.fields
  THEN e.headers.fields["Authorization"].value
  ELSE <<>>

\* The request passes its handler's presence checks.
ValidRequest(handler, e) ==
  IF handler = "authorize" THEN AuthorizationHeader(e) # <<>>
  ELSE HasObjectBody(e) /\ \A k \in RequiredFields(handler) : Field(e, k) # <<>>

\* The failure reason a rejected call carries; empty when it carries none.
Reason(outcome) ==
  IF ~outcome.ok /\ "message" \in DOMAIN outcome.error.fields
  THEN outcome.error.fields["message"].value
  ELSE <<>>

\* The access token a fulfilled initiateAuth carries; empty when it has none.
Token(outcome) ==
  IF /\ outcome.ok
     /\ "AuthenticationResult" \in DOMAIN outcome.data.fields
     /\ "AccessToken" \in DOMAIN outcome.data.fields["AuthenticationResult"].fields
  THEN outcome.data.fields["AuthenticationResult"].fields["AccessToken"].value
  ELSE <<>>

\* The secret proof sent in the provider call of invocation i.
SentProof(i) ==
  IF inv[i].handler = "authenticate"
  THEN inv[i].call.params.AuthParameters.SECRET_HASH
  ELSE inv[i].call.params.SecretHash

----------------------------------------------------------------------------
(* The properties *)

\* C1: every invocation, whatever the request and the provider's outcome,
\* ends by returning a response with a status code and a message body; none
\* ends in an unhandled fault, a malformed body included.
C1_EveryInvocationResponds ==
  \A i \in Invocations :
    /\ inv[i].pc # "thrown"
    /\ Returned(i) =>
         /\ inv[i].result.statusCode \in {200, 400, 401}
         /\ JSON_parse(inv[i].result.body).ok

\* C2: authenticate answers 200 exactly when initiateAuth succeeded with an
\* access token, the 200 body then carries that token under the key
\* accessToken and has no message key; a success without an access token is
\* answered 400 "Invalid username or password".
C2_AuthenticateTokenUnderAccessToken ==
  \A i \in Invocations :
    (Returned(i) /\ inv[i].handler = "authenticate") =>
      /\ inv[i].result.statusCode = 200
           <=> (Succeeded(i) /\ Token(inv[i].outcome) # <<>>)
      /\ inv[i].result.statusCode = 200 =>
           inv[i].result.body = KeyedBody("accessToken", Token(inv[i].outcome))
      /\ (Succeeded(i) /\ Token(inv[i].outcome) = <<>>) =>
           inv[i].result = Response(400, <<"Invalid username or password">>)

\* C3: authorize answers 200 "Authorized" only when the Authorization header
\* has the form "Bearer <token>" and getUser succeeded for exactly that
\* token; a header that is present but not of that form, or a token the
\* provider rejects, is answered 401.
C3_AuthorizeOnlyBearer ==
  \A i \in Invocations :
    (Returned(i) /\ inv[i].handler = "authorize") =>
      LET header == AuthorizationHeader(inv[i].event)
          bearer == Len(header) >= 2 /\ SubSeq(header, 1, 1) = Bearer
      IN /\ inv[i].result.statusCode = 200 =>
              /\ inv[i].result = Response(200, <<"Authorized">>)
              /\ bearer
              /\ inv[i].call.params.AccessToken = Str(Tail(header))
              /\ Succeeded(i)
         /\ (header # <<>> /\ ~bearer) => inv[i].result.statusCode = 401
         /\ Failed(i) => inv[i].result.statusCode = 401

\* C4: authorize with no headers, or with headers that hold no or an empty
\* Authorization entry, answers exactly 401 {message: "Missing Authorization
\* header"} and makes no provider call.
C4_MissingAuthorizationHeader ==
  \A i \in Invocations :
    (Invoked(i) /\ inv[i].handler = "authorize"
       /\ AuthorizationHeader(inv[i].event) = <<>>) =>
      /\ Returned(i)
      /\ inv[i].result = Response(401, <<"Missing Authorization header">>)
      /\ inv[i].calls = 0
      /\ inv[i].call = None

C4_Witness ==
  \E i \in Invocations :
    /\ Returned(i) /\ inv[i].handler = "authorize"
    /\ inv[i].event.headers.type = "object"
    /\ "Authorization" \in DOMAIN inv[i].event.headers.fields
    /\ AuthorizationHeader(inv[i].event) = <<>>

\* C5: in authenticate, register and confirm an absent or empty body is
\* answered 400 "Missing body", and an object body in which a required field
\* is absent or empty is answered 400 with the handler's message; in both
\* cases no secret proof is derived and no provider call is made.
C5_ValidationPrecedesProviderCall ==
  \A i \in Invocations :
    (Invoked(i) /\ inv[i].handler \in BodyHandlers) =>
      LET e == inv[i].event
          h == inv[i].handler
      IN /\ ~HasBody(e) =>
              /\ Returned(i)
              /\ inv[i].result = Response(400, <<"Missing body">>)
              /\ inv[i].calls = 0 /\ inv[i].call = None
              /\ inv[i].secretHash = None
         /\ (HasObjectBody(e) /\ \E k \in RequiredFields(h) : Field(e, k) = <<>>) =>
              /\ Returned(i)
              /\ inv[i].result = Response(400, MissingFieldsMessage(h))
              /\ inv[i].calls = 0 /\ inv[i].call = None
              /\ inv[i].secretHash = None

C5_Witness ==
  \E i, j \in Invocations :
    /\ Returned(i) /\ inv[i].handler = "register"
    /\ HasObjectBody(inv[i].event)
    /\ Field(inv[i].event, "email") = <<>>
    /\ Field(inv[i].event, "username") # <<>>
    /\ Field(inv[i].event, "password") # <<>>
    /\ Returned(j) /\ inv[j].handler = "confirm"
    /\ inv[j].event.body = Str(<<>>)

\* C6: when a handler's provider call fails the answer is 400 (401 for
\* authorize) with the provider's failure reason when there is a non-empty
\* one, and the handler's fallback text otherwise; never a 200.
C6_FailureIsMapped ==
  \A i \in Invocations :
    (Returned(i) /\ Failed(i)) =>
      LET reason == Reason(inv[i].outcome)
          h == inv[i].handler
      IN inv[i].result =
           Response(FailureStatus(h),
                    IF reason # <<>> THEN reason ELSE FallbackMessage(h))

C6_Witness ==
  \E i, j \in Invocations :
    /\ Returned(i) /\ Failed(i) /\ inv[i].handler = "register"
    /\ Reason(inv[i].outcome) = <<>>
    /\ Returned(j) /\ Failed(j) /\ inv[j].handler = "authorize"
    /\ Reason(inv[j].outcome) = Reason1

\* C7: no response holds the request's password or the client secret: its
\* message is one of the handler's fixed texts, the provider's failure
\* reason or the provider's access token; two requests that differ only in
\* the password and get the same provider outcome get the same response.
C7_NoSecretInResponse ==
  /\ \A i \in Invocations :
       Returned(i) =>
         /\ \E m \in FixedMessages(inv[i].handler)
                       \cup (IF Settled(i)
                             THEN {Reason(inv[i].outcome), Token(inv[i].outcome)}
                             ELSE {}) :
              inv[i].result.body = MessageBody(m)
         /\ ~Contains(inv[i].result.body, cognitoClientSecret)
         /\ HasObjectBody(inv[i].event) =>
              ~Contains(inv[i].result.body, Field(inv[i].event, "password"))
  /\ \A i, j \in Invocations :
       (/\ Returned(i) /\ Returned(j)
        /\ inv[i].handler = inv[j].handler
        /\ inv[i].event.headers = inv[j].event.headers
        /\ HasObjectBody(inv[i].event) /\ HasObjectBody(inv[j].event)
        /\ \A k \in {"email", "username", "code"} :
             Field(inv[i].event, k) = Field(inv[j].event, k)
        /\ inv[i].outcome = inv[j].outcome)
       => inv[i].result = inv[j].result

C7_Witness ==
  \E i, j \in Invocations :
    /\ Returned(i) /\ Returned(j)
    /\ inv[i].handler = "authenticate" /\ inv[j].handler = "authenticate"
    /\ HasObjectBody(inv[i].event) /\ HasObjectBody(inv[j].event)
    /\ Field(inv[i].event, "username") = Field(inv[j].event, "username")
    /\ Field(inv[i].event, "password") = P1
    /\ Field(inv[j].event, "password") = P2
    /\ Failed(i) /\ inv[i].outcome = inv[j].outcome
    /\ cognitoClientSecret # <<>>

\* C8: an invocation makes at most one provider call: none when the request
\* fails validation, exactly one otherwise; a failed call is not repeated,
\* and the response is produced only once that call has settled.
C8_AtMostOneProviderCall ==
  \A i \in Invocations :
    /\ inv[i].calls <= 1
    /\ Invoked(i) =>
         inv[i].calls = IF ValidRequest(inv[i].handler, inv[i].event) THEN 1 ELSE 0
    /\ inv[i].pc = "awaiting" => (inv[i].result = None /\ ~Settled(i))
    /\ (Returned(i) /\ inv[i].calls = 1) => Settled(i)
    /\ (inv[i].calls = 0) => ~Settled(i)

C8_Witness ==
  \E i, j \in Invocations :
    /\ Returned(i) /\ Failed(i) /\ inv[i].calls = 1
    /\ Returned(j) /\ inv[j].calls = 0 /\ inv[j].handler = "authenticate"

\* C9: the secret proof sent by authenticate, register and confirm is the
\* keyed hash, under the client secret, of the request's own username
\* followed by the client identifier; two invocations with the same username
\* send the same proof, an empty client secret included.
C9_SecretProof ==
  /\ \A i \in Invocations :
       (inv[i].handler \in BodyHandlers /\ inv[i].calls > 0) =>
         /\ SentProof(i) =
              [type |-> "string",
               digest |-> [algorithm |-> "sha256",
                           key |-> cognitoClientSecret,
                           data |-> Field(inv[i].event, "username")
                                      \o cognitoClientId],
               encoding |-> "base64"]
         /\ inv[i].secretHash = SentProof(i)
  /\ \A i, j \in Invocations :
       (/\ inv[i].handler \in BodyHandlers /\ inv[i].calls > 0
        /\ inv[j].handler \in BodyHandlers /\ inv[j].calls > 0
        /\ Field(inv[i].event, "username") = Field(inv[j].event, "username"))
       => SentProof(i) = SentProof(j)

C9_Witness ==
  \E i, j \in Invocations :
    /\ inv[i].handler = "register" /\ inv[i].calls > 0
    /\ inv[j].handler = "confirm" /\ inv[j].calls > 0
    /\ Field(inv[i].event, "username") = Field(inv[j].event, "username")
    /\ cognitoClientSecret = <<>>
    /\ cognitoClientId # <<>>

\* The state part of C10: two invocations of the same handler with the same
\* event have sent the same provider call, and with the same outcome have
\* the same result.
SameRequestSameBehaviour ==
  \A i, j \in Invocations :
    (/\ Invoked(i) /\ Invoked(j)
     /\ inv[i].handler = inv[j].handler
     /\ inv[i].event = inv[j].event)
    => /\ inv[i].call = inv[j].call
       /\ inv[i].secretHash = inv[j].secretHash
       /\ ((inv[i].pc = inv[j].pc /\ inv[i].outcome = inv[j].outcome)
             => inv[i].result = inv[j].result)

\* C10: under every interleaving of invocations suspended at their provider
\* calls, a step of one invocation leaves the client identifier, the client
\* secret and every other invocation as they were, and an invocation's
\* provider call and response depend only on its own request and outcome.
C10_InvocationsIndependent ==
  [][/\ cognitoClientId' = cognitoClientId
     /\ cognitoClientSecret' = cognitoClientSecret
     /\ \E i \in Invocations : \A j \in Invocations \ {i} : inv'[j] = inv[j]
     /\ SameRequestSameBehaviour']_vars

C10_Witness ==
  /\ inv[1].handler = "authenticate" /\ inv[2].handler = "authenticate"
  /\ inv[1].event = inv[2].event
  /\ inv[1].pc = "returned" /\ inv[2].pc = "awaiting"
  /\ inv[1].result.statusCode = 200

====
